---------------------------- MODULE Spec2Model ----------------------------
(***************************************************************************)
(* A model of Development/nmos-cpp-node/node_implementation.cpp:           *)
(*   - node_implementation_thread: the setup sequence that inserts the     *)
(*     example resources into the node model, starts the temperature       *)
(*     events task and then waits for shutdown;                            *)
(*   - the temperature_events task (pplx::do_while), the periodic mutator; *)
(*   - the Connection API activation callbacks made by                     *)
(*     make_node_implementation_auto_resolver and                          *)
(*     make_node_implementation_transportfile_setter, as they are invoked  *)
(*     by the setup sequence and by an inbound activation.                 *)
(* The model mutex, the shutdown flag and the condition variable are those *)
(* of nmos::model; JSON values are modelled as strings and records.        *)
(***************************************************************************)
EXTENDS Integers, Sequences, FiniteSets, TLC

VARIABLES
    node_resources,        \* model.node_resources: (id, type) -> data
    connection_resources,  \* model.connection_resources
    events_resources,      \* model.events_resources
    shutdown,              \* model.shutdown
    events_port,           \* nmos::fields::events_port(model.settings)
    holders,               \* the tasks that own the model mutex
    pc_main,               \* position of node_implementation_thread
    ip,                    \* index into Program of the statement being run
    success,               \* insert_resource_after's local 'success'
    ret,                   \* the value insert_resource_after returned
    connection_resource,   \* the connection resource local being built
    mainWoken,             \* shutdown_condition notified while main is blocked
    token,                 \* cancellation_source's token is cancelled
    pc_mut,                \* position of the temperature_events task
    pc_act,                \* position of the inbound activation
    act,                   \* the activation in flight
    activations,           \* number of activations begun
    dirty,                 \* tasks with a committed change not yet notified
    mutationsAfterCancel,  \* modify_resource calls made after cancel()
    reader,                \* a reader of the events resources: position, state seen
    call                   \* a callback or function called on its own: input, output

vars == << node_resources, connection_resources, events_resources, shutdown,
           events_port, holders, pc_main, ip, success, ret,
           connection_resource, mainWoken, token, pc_mut, pc_act, act,
           activations, dirty, mutationsAfterCancel, reader, call >>

-----------------------------------------------------------------------------
(* Bounds of the model *)

\* the number of inbound activations the Connection API makes
MaxActivations == 2

\* the largest value the ghost counter mutationsAfterCancel takes
MaxCounted == 2

-----------------------------------------------------------------------------
(* Identifiers: nmos::make_repeatable_id(seed_id, name) is a fixed function *)
(* of the name, so each id is modelled by its name.                        *)

node_id == "/x-nmos/node/self"
device_id == "/x-nmos/node/device/0"
source_id == "/x-nmos/node/source/0"
flow_id == "/x-nmos/node/flow/0"
sender_id == "/x-nmos/node/sender/0"
receiver_id == "/x-nmos/node/receiver/0"
temperature_source_id == "/x-nmos/node/source/1"
temperature_flow_id == "/x-nmos/node/flow/1"
temperature_ws_sender_id == "/x-nmos/node/sender/1"
temperature_ws_receiver_id == "/x-nmos/node/receiver/1"

\* the id of a sender that is none of the four the callbacks know
other_id == "/x-nmos/node/sender/2"

\* the "auto" sentinel of a transport parameter
auto == "auto"

\* the absent resource / the unset output field
null == [ null |-> TRUE ]

-----------------------------------------------------------------------------
(* nmos::resources: a namespace maps (id, type) to the resource's data *)

EmptyResources == [ k \in {} |-> null ]

find_resource(resources, id_type) == id_type \in DOMAIN resources

\* insert_resource(resources, resource): { resources after, .second }
insert_resource(resources, id_type, data) ==
    IF id_type \in DOMAIN resources
    THEN [ resources |-> resources, second |-> FALSE ]
    ELSE [ resources |-> [ k \in DOMAIN resources \cup { id_type } |->
                             IF k = id_type THEN data ELSE resources[k] ],
           second |-> TRUE ]

\* modify_resource(resources, id, modifier) with the modifier of lines
\* 188-191, which assigns endpoint_state: the resource with that id, of
\* whatever type, gets the state; nothing changes if there is none
modify_resource(resources, id, endpoint_state) ==
    [ k \in DOMAIN resources |->
        IF k[1] = id
        THEN [ resources[k] EXCEPT !.state = endpoint_state ]
        ELSE resources[k] ]

-----------------------------------------------------------------------------
(* Transport parameters: a sequence of legs, each a record of strings *)

\* nmos::details::resolve_auto(params, key, auto_fun)
details_resolve_auto(params, key, value) ==
    IF key \in DOMAIN params /\ params[key] = auto
    THEN [ params EXCEPT ![key] = value ]
    ELSE params

\* details_resolve_auto applied to one leg, transport_params[i - 1] in C++
resolve_leg(transport_params, i, key, value) ==
    IF i \in DOMAIN transport_params
    THEN [ transport_params EXCEPT ![i] = details_resolve_auto(@, key, value) ]
    ELSE transport_params

\* nmos::resolve_rtp_auto(type, transport_params): the port defaults
resolve_rtp_auto(type, transport_params) ==
    [ i \in DOMAIN transport_params |->
        IF type = "sender"
        THEN details_resolve_auto(
                 details_resolve_auto(transport_params[i], "source_port", "5004"),
                 "destination_port", "5004")
        ELSE details_resolve_auto(transport_params[i], "destination_port", "5004") ]

\* nmos::make_events_ws_api_connection_uri(device_id, settings)
temperature_ws_sender_uri == "ws://host/x-nmos/events/devices/0"

\* resolve_auto with the destination_ip of the second leg of the example
\* sender not resolved
resolve_auto_LegMissed(id, type, transport_params) ==
    IF sender_id = id
    THEN resolve_leg(
           resolve_leg(
             resolve_leg(resolve_rtp_auto(type, transport_params),
                         1, "source_ip", "192.168.255.0"),
             2, "source_ip", "192.168.255.1"),
           1, "destination_ip", "239.255.255.0")
    ELSE IF receiver_id = id
    THEN resolve_leg(
           resolve_leg(resolve_rtp_auto(type, transport_params),
                       1, "interface_ip", "192.168.255.2"),
           2, "interface_ip", "192.168.255.3")
    ELSE IF temperature_ws_sender_id = id
    THEN resolve_leg(
           resolve_leg(transport_params, 1, "connection_uri",
                       temperature_ws_sender_uri),
           1, "connection_authorization", "false")
    ELSE IF temperature_ws_receiver_id = id
    THEN resolve_leg(transport_params, 1, "connection_authorization", "false")
    ELSE transport_params

\* resolve_auto with the source_ip of the first leg of the example sender
\* assigned, not resolved: a value that is not "auto" is replaced too
resolve_auto_Overwrites(id, type, transport_params) ==
    IF sender_id = id
    THEN resolve_leg(
           resolve_leg(
             resolve_leg(
               [ resolve_rtp_auto(type, transport_params)
                   EXCEPT ![1].source_ip = "192.168.255.0" ],
               2, "source_ip", "192.168.255.1"),
             1, "destination_ip", "239.255.255.0"),
           2, "destination_ip", "239.255.255.1")
    ELSE IF receiver_id = id
    THEN resolve_leg(
           resolve_leg(resolve_rtp_auto(type, transport_params),
                       1, "interface_ip", "192.168.255.2"),
           2, "interface_ip", "192.168.255.3")
    ELSE IF temperature_ws_sender_id = id
    THEN resolve_leg(
           resolve_leg(transport_params, 1, "connection_uri",
                       temperature_ws_sender_uri),
           1, "connection_authorization", "false")
    ELSE IF temperature_ws_receiver_id = id
    THEN resolve_leg(transport_params, 1, "connection_authorization", "false")
    ELSE transport_params

\* the lambda of make_node_implementation_auto_resolver, as a function from
\* the connection resource's id and type and the transport_params before to
\* the transport_params after
resolve_auto(id, type, transport_params) ==
    IF sender_id = id
    THEN resolve_leg(
           resolve_leg(
             resolve_leg(
               resolve_leg(resolve_rtp_auto(type, transport_params),
                           1, "source_ip", "192.168.255.0"),
               2, "source_ip", "192.168.255.1"),
             1, "destination_ip", "239.255.255.0"),
           2, "destination_ip", "239.255.255.1")
    ELSE IF receiver_id = id
    THEN resolve_leg(
           resolve_leg(resolve_rtp_auto(type, transport_params),
                       1, "interface_ip", "192.168.255.2"),
           2, "interface_ip", "192.168.255.3")
    ELSE IF temperature_ws_sender_id = id
    THEN resolve_leg(
           resolve_leg(transport_params, 1, "connection_uri",
                       temperature_ws_sender_uri),
           1, "connection_authorization", "false")
    ELSE IF temperature_ws_receiver_id = id
    THEN resolve_leg(transport_params, 1, "connection_authorization", "false")
    ELSE transport_params

\* a parameter of some leg is still the "auto" sentinel
HasAuto(transport_params) ==
    \E i \in DOMAIN transport_params :
        \E key \in DOMAIN transport_params[i] : transport_params[i][key] = auto

-----------------------------------------------------------------------------
(* The transport file of the example sender *)

\* nmos::make_sdp_parameters and nmos::make_session_description followed by
\* sdp::make_session_description: the description is a function of the
\* source, the flow, the sender and the active transport parameters only
make_session_description(source, flow, sender, transport_params) ==
    [ grain_rate |-> source.grain_rate,
      media_type |-> flow.media_type,
      interfaces |-> sender.interface_bindings,
      media |-> [ i \in DOMAIN transport_params |->
                    [ mid |-> IF i = 1 THEN "PRIMARY" ELSE "SECONDARY",
                      source_filter |-> transport_params[i].source_ip,
                      connection |-> transport_params[i].destination_ip,
                      port |-> transport_params[i].destination_port ] ] ]

\* nmos::make_connection_rtp_sender_transportfile(sdp)
make_connection_rtp_sender_transportfile(sdp) ==
    [ data |-> sdp, type |-> "application/sdp" ]

\* set_transportfile with the check of the two find_resource results left
\* out: a transportfile is written from whatever was found
set_transportfile_Unchecked(resources, sender, connection_sender, endpoint_transportfile) ==
    IF sender_id = connection_sender.id
    THEN [ threw |-> FALSE,
           endpoint_transportfile |->
               make_connection_rtp_sender_transportfile(
                   [ found |-> { k \in { << source_id, "source" >>, << flow_id, "flow" >> } :
                                   find_resource(resources, k) } ]) ]
    ELSE [ threw |-> FALSE, endpoint_transportfile |-> endpoint_transportfile ]

\* set_transportfile with an else branch that clears the output field for
\* every other sender
set_transportfile_ClearsOthers(resources, sender, connection_sender, endpoint_transportfile) ==
    IF sender_id = connection_sender.id
    THEN IF ~ find_resource(resources, << source_id, "source" >>)
            \/ ~ find_resource(resources, << flow_id, "flow" >>)
         THEN [ threw |-> TRUE, endpoint_transportfile |-> endpoint_transportfile ]
         ELSE [ threw |-> FALSE,
                endpoint_transportfile |->
                    make_connection_rtp_sender_transportfile(
                        make_session_description(
                            resources[<< source_id, "source" >>],
                            resources[<< flow_id, "flow" >>],
                            sender, connection_sender.active)) ]
    ELSE [ threw |-> FALSE, endpoint_transportfile |-> null ]

\* the lambda of make_node_implementation_transportfile_setter: threw is
\* the std::logic_error, endpoint_transportfile the output field after
set_transportfile(resources, sender, connection_sender, endpoint_transportfile) ==
    IF sender_id = connection_sender.id
    THEN IF ~ find_resource(resources, << source_id, "source" >>)
            \/ ~ find_resource(resources, << flow_id, "flow" >>)
         THEN [ threw |-> TRUE, endpoint_transportfile |-> endpoint_transportfile ]
         ELSE [ threw |-> FALSE,
                endpoint_transportfile |->
                    make_connection_rtp_sender_transportfile(
                        make_session_description(
                            resources[<< source_id, "source" >>],
                            resources[<< flow_id, "flow" >>],
                            sender, connection_sender.active)) ]
    ELSE [ threw |-> FALSE, endpoint_transportfile |-> endpoint_transportfile ]

-----------------------------------------------------------------------------
(* The example resources *)

\* one leg of the staged and active transport_params of each connection
\* resource as its make_connection_... function leaves it
rtp_sender_leg ==
    [ source_ip |-> auto, destination_ip |-> auto, source_port |-> auto,
      destination_port |-> auto, rtp_enabled |-> "true" ]

rtp_receiver_leg ==
    [ source_ip |-> "null", multicast_ip |-> "null", interface_ip |-> auto,
      destination_port |-> auto, rtp_enabled |-> "true" ]

ws_sender_leg == [ connection_uri |-> auto, connection_authorization |-> auto ]

ws_receiver_leg == [ connection_uri |-> "null", connection_authorization |-> auto ]

\* nmos::make_connection_rtp_sender(id, true), ..._rtp_receiver(id, true),
\* ..._events_websocket_sender and ..._events_websocket_receiver
make_connection_resource(id, type, leg, legs) ==
    [ id |-> id, type |-> type,
      staged |-> [ i \in 1..legs |-> leg ],
      active |-> [ i \in 1..legs |-> leg ],
      transportfile |-> null ]

\* the data of the IS-04 resources, by the name of the C++ variable
NodeData(var, port) ==
    CASE var = "node" -> [ interfaces |-> << "example" >> ]
      [] var = "device" ->
            [ node_id |-> node_id,
              senders |-> IF 0 <= port
                          THEN << sender_id, temperature_ws_sender_id >>
                          ELSE << sender_id >>,
              receivers |-> << receiver_id >> ]
      [] var = "source" -> [ device_id |-> device_id, grain_rate |-> "25/1" ]
      [] var = "flow" ->
            [ source_id |-> source_id, device_id |-> device_id,
              media_type |-> "video/raw" ]
      [] var = "sender" ->
            [ flow_id |-> flow_id, device_id |-> device_id,
              interface_bindings |-> << "example", "example" >>,
              group_hint |-> "example:sender 0" ]
      [] var = "receiver" ->
            [ device_id |-> device_id, transport |-> "rtp_mcast",
              interface_bindings |-> << "example", "example" >>,
              group_hint |-> "example:receiver 0" ]
      [] var = "temperature_source" ->
            [ device_id |-> device_id, event_type |-> "number/temperature/C" ]
      [] var = "temperature_flow" ->
            [ source_id |-> temperature_source_id, device_id |-> device_id,
              media_type |-> "application/json" ]
      [] var = "temperature_ws_sender" ->
            [ flow_id |-> temperature_flow_id, device_id |-> device_id,
              interface_bindings |-> << "example" >>,
              group_hint |-> "" ]
      [] var = "temperature_receiver" ->
            [ device_id |-> device_id, transport |-> "websocket",
              interface_bindings |-> << "example" >>,
              group_hint |-> "example:receiver 1" ]

\* nmos::make_events_number_state(source_id, value, event_type)
make_events_number_state(id, value, event_type) ==
    [ source_id |-> id, value |-> value, scale |-> 10, event_type |-> event_type ]

\* nmos::make_events_source(id, state, type) of lines 142-144
events_temperature_source ==
    [ state |-> make_events_number_state(temperature_source_id, 201, "number"),
      type |-> [ min |-> -200, max |-> 1000, step |-> 1, unit |-> "C" ] ]

-----------------------------------------------------------------------------
(* The statements of node_implementation_thread between taking the lock    *)
(* and starting the temperature events task: each insert_resource_after    *)
(* call, and each construction of a connection resource with its           *)
(* resolve_auto (and set_transportfile) call                               *)

Ins(resources, id, type, var) ==
    [ op |-> "insert", resources |-> resources, id |-> id, type |-> type, var |-> var ]

Make(id, type, var) ==
    [ op |-> "make", resources |-> "", id |-> id, type |-> type, var |-> var ]

\* lines 73-85: example node
example_node ==
    << Ins("node_resources", node_id, "node", "node") >>

\* lines 87-94: example device
example_device ==
    << Ins("node_resources", device_id, "device", "device") >>

\* example_sender with the connection sender built before the flow is
\* inserted
example_sender_BuiltEarly ==
    << Ins("node_resources", source_id, "source", "source"),
       Make(sender_id, "sender", "connection_sender"),
       Ins("node_resources", flow_id, "flow", "flow"),
       Ins("node_resources", sender_id, "sender", "sender"),
       Ins("connection_resources", sender_id, "sender", "connection_sender") >>

\* lines 96-117: example source, flow and sender
example_sender ==
    << Ins("node_resources", source_id, "source", "source"),
       Ins("node_resources", flow_id, "flow", "flow"),
       Make(sender_id, "sender", "connection_sender"),
       Ins("node_resources", sender_id, "sender", "sender"),
       Ins("connection_resources", sender_id, "sender", "connection_sender") >>

\* lines 119-131: example receiver
example_receiver ==
    << Make(receiver_id, "receiver", "connection_receiver"),
       Ins("node_resources", receiver_id, "receiver", "receiver"),
       Ins("connection_resources", receiver_id, "receiver", "connection_receiver") >>

\* lines 133-156: example temperature event source, sender, flow
example_temperature_source(port) ==
    IF 0 <= port
    THEN << Make(temperature_ws_sender_id, "sender", "connection_temperature_ws_sender"),
            Ins("node_resources", temperature_source_id, "source", "temperature_source"),
            Ins("node_resources", temperature_flow_id, "flow", "temperature_flow"),
            Ins("node_resources", temperature_ws_sender_id, "sender", "temperature_ws_sender"),
            Ins("connection_resources", temperature_ws_sender_id, "sender",
                "connection_temperature_ws_sender"),
            Ins("events_resources", temperature_source_id, "source",
                "events_temperature_source") >>
    ELSE << >>

\* lines 158-168: example temperature event receiver
example_temperature_receiver ==
    << Make(temperature_ws_receiver_id, "receiver", "connection_temperature_receiver"),
       Ins("node_resources", temperature_ws_receiver_id, "receiver", "temperature_receiver"),
       Ins("connection_resources", temperature_ws_receiver_id, "receiver",
           "connection_temperature_receiver") >>

Program(port) ==
    example_node \o example_device \o example_sender \o example_receiver
    \o example_temperature_source(port) \o example_temperature_receiver

\* the connection resource a "make" statement constructs, before resolve_auto
MadeConnection(e) ==
    CASE e.var = "connection_sender" ->
            make_connection_resource(e.id, e.type, rtp_sender_leg, 2)
      [] e.var = "connection_receiver" ->
            make_connection_resource(e.id, e.type, rtp_receiver_leg, 2)
      [] e.var = "connection_temperature_ws_sender" ->
            make_connection_resource(e.id, e.type, ws_sender_leg, 1)
      [] e.var = "connection_temperature_receiver" ->
            make_connection_resource(e.id, e.type, ws_receiver_leg, 1)

\* the IS-04 resource passed with the connection resource to the callbacks
NodeVarOf(e) ==
    CASE e.var = "connection_sender" -> "sender"
      [] e.var = "connection_receiver" -> "receiver"
      [] e.var = "connection_temperature_ws_sender" -> "temperature_ws_sender"
      [] e.var = "connection_temperature_receiver" -> "temperature_receiver"

\* Built with lines 112 and 113 exchanged: set_transportfile is called with
\* the connection resource as constructed and resolve_auto afterwards
Built_BuildFirst(e, resources, port) ==
    LET made == MadeConnection(e)
        set == IF e.var = "connection_sender"
               THEN set_transportfile(resources, NodeData(NodeVarOf(e), port),
                                      made, made.transportfile)
               ELSE [ threw |-> FALSE,
                      endpoint_transportfile |-> made.transportfile ]
    IN  [ threw |-> set.threw,
          resource |-> [ made EXCEPT
                           !.active = resolve_auto(e.id, e.type, made.active),
                           !.transportfile = set.endpoint_transportfile ] ]

\* a "make" statement: the connection resource is constructed, resolve_auto
\* is applied to its active transport_params and, for connection_sender,
\* set_transportfile writes its transportfile from the node resources
Built(e, resources, port) ==
    LET made == MadeConnection(e)
        resolved == [ made EXCEPT !.active = resolve_auto(e.id, e.type, made.active) ]
        set == IF e.var = "connection_sender"
               THEN set_transportfile(resources, NodeData(NodeVarOf(e), port),
                                      resolved, resolved.transportfile)
               ELSE [ threw |-> FALSE,
                      endpoint_transportfile |-> resolved.transportfile ]
    IN  [ threw |-> set.threw,
          resource |-> [ resolved EXCEPT !.transportfile = set.endpoint_transportfile ] ]

\* the resource an "insert" statement moves into the model
InsertedData(e) ==
    IF e.resources = "node_resources" THEN NodeData(e.var, events_port)
    ELSE IF e.resources = "connection_resources" THEN connection_resource
    ELSE events_temperature_source

-----------------------------------------------------------------------------
(* State after construction: an empty model, no thread started yet *)

NoActivation == [ id_type |-> << "", "" >>, staged |-> << >>, threw |-> FALSE ]

\* the values of the events_port setting: disabled (negative) and enabled
EventsPorts == { -1, 0 }

\* no reader of the events resources
NoReader == [ pc |-> "idle", state |-> null ]

\* no callback called on its own
NoCall == [ fn |-> "", id |-> "", type |-> "", in |-> null, out |-> null,
            prev |-> null, threw |-> FALSE, calls |-> 0 ]

Init ==
    /\ reader = NoReader
    /\ call = NoCall
    /\ node_resources = EmptyResources
    /\ connection_resources = EmptyResources
    /\ events_resources = EmptyResources
    /\ shutdown = FALSE
    /\ events_port \in EventsPorts
    /\ holders = {}
    /\ pc_main = "lock"
    /\ ip = 1
    /\ success = FALSE
    /\ ret = FALSE
    /\ connection_resource = null
    /\ mainWoken = FALSE
    /\ token = FALSE
    /\ pc_mut = "idle"
    /\ pc_act = "idle"
    /\ act = NoActivation
    /\ activations = 0
    /\ dirty = {}
    /\ mutationsAfterCancel = 0

stores == << node_resources, connection_resources, events_resources >>
mainLocals == << ip, success, ret, connection_resource >>
mutVars == << token, pc_mut, mutationsAfterCancel >>
actVars == << pc_act, act, activations >>

\* the tasks and calls that are not part of node_implementation_thread, of
\* the temperature_events task or of an activation
others == << reader, call >>

\* the state of the model, of node_implementation_thread, of the
\* temperature_events task and of an activation
program == << node_resources, connection_resources, events_resources, shutdown,
             events_port, holders, pc_main, ip, success, ret,
             connection_resource, mainWoken, token, pc_mut, pc_act, act,
             activations, dirty, mutationsAfterCancel >>

\* nmos::model::notify(): shutdown_condition.notify_all() by task t
Notify(t) ==
    /\ mainWoken' = ( mainWoken \/ pc_main \in { "blocked", "blocked_shutdown" } )
    /\ dirty' = dirty \ { t }

-----------------------------------------------------------------------------
(* node_implementation_thread *)

\* auto lock = model.write_lock()
MainLock ==
    /\ pc_main = "lock"
    /\ holders = {}
    /\ holders' = { "main" }
    /\ pc_main' = "body"
    /\ UNCHANGED << stores, shutdown, events_port, mainLocals, mainWoken,
                    mutVars, actVars, dirty >>

\* a connection resource is constructed, resolve_auto is applied to its
\* active transport_params and, for the example sender, set_transportfile
\* writes its transportfile; a std::logic_error leaves the thread function
MainMake ==
    /\ pc_main = "body"
    /\ ip \in DOMAIN Program(events_port)
    /\ Program(events_port)[ip].op = "make"
    /\ LET built == Built(Program(events_port)[ip], node_resources, events_port)
       IN  IF built.threw
           THEN /\ pc_main' = "threw"
                /\ holders' = holders \ { "main" }
                /\ UNCHANGED << ip, connection_resource >>
           ELSE /\ connection_resource' = built.resource
                /\ ip' = ip + 1
                /\ UNCHANGED << pc_main, holders >>
    /\ UNCHANGED << stores, shutdown, events_port, success, ret, mainWoken,
                    mutVars, actVars, dirty >>

\* insert_resource_after, line 54: wait_for finds shutdown set and returns
\* true at once, or releases the lock and blocks on shutdown_condition
MainWaitFor ==
    /\ pc_main = "body"
    /\ ip \in DOMAIN Program(events_port)
    /\ Program(events_port)[ip].op = "insert"
    /\ IF shutdown
       THEN /\ ret' = FALSE
            /\ pc_main' = "ret"
            /\ UNCHANGED << holders, mainWoken >>
       ELSE /\ holders' = holders \ { "main" }
            /\ pc_main' = "blocked"
            /\ mainWoken' = FALSE
            /\ UNCHANGED ret
    /\ UNCHANGED << stores, shutdown, events_port, ip, success,
                    connection_resource, mutVars, actVars, dirty >>

\* MainWakeTimeout with the wait given no predicate: after the timeout
\* insert_resource_after goes on to the insert whatever model.shutdown is
MainWakeTimeout_NoPredicate ==
    /\ pc_main = "blocked"
    /\ holders = {}
    /\ holders' = { "main" }
    /\ mainWoken' = FALSE
    /\ pc_main' = "insert"
    /\ UNCHANGED << stores, shutdown, events_port, ip, success, ret,
                    connection_resource, mutVars, actVars, dirty >>

\* wait_for times out after delay_millis: the lock is taken again and the
\* predicate decides what wait_for returns
MainWakeTimeout ==
    /\ pc_main = "blocked"
    /\ holders = {}
    /\ holders' = { "main" }
    /\ mainWoken' = FALSE
    /\ IF shutdown
       THEN ret' = FALSE /\ pc_main' = "ret"
       ELSE pc_main' = "insert" /\ UNCHANGED ret
    /\ UNCHANGED << stores, shutdown, events_port, ip, success,
                    connection_resource, mutVars, actVars, dirty >>

\* wait_for is woken by a notification before the timeout: the lock is taken
\* again and the predicate is evaluated again
MainWakeNotified ==
    /\ pc_main = "blocked"
    /\ mainWoken
    /\ holders = {}
    /\ holders' = { "main" }
    /\ mainWoken' = FALSE
    /\ pc_main' = "body"
    /\ UNCHANGED << stores, shutdown, events_port, mainLocals, mutVars,
                    actVars, dirty >>

\* the namespace of the model an "insert" statement names
ResourcesNamed(name) ==
    CASE name = "node_resources" -> node_resources
      [] name = "connection_resources" -> connection_resources
      [] name = "events_resources" -> events_resources

\* MainInsert with 'resources' captured by value: the insert is made into a
\* copy and the model is left as it was
MainInsert_ByValue ==
    /\ pc_main = "insert"
    /\ LET e == Program(events_port)[ip]
           inserted == insert_resource(ResourcesNamed(e.resources),
                                       << e.id, e.type >>, InsertedData(e))
       IN  success' = inserted.second
    /\ dirty' = IF success' THEN dirty \cup { "main" } ELSE dirty
    /\ pc_main' = "notify"
    /\ UNCHANGED << stores, shutdown, events_port, holders, ip, ret,
                    connection_resource, mainWoken, mutVars, actVars >>

\* MainInsert with 'success' taken from the iterator insert_resource
\* returns, which is valid whether or not the insert took place
MainInsert_IteratorValid ==
    /\ pc_main = "insert"
    /\ LET e == Program(events_port)[ip]
           inserted == insert_resource(ResourcesNamed(e.resources),
                                       << e.id, e.type >>, InsertedData(e))
       IN  /\ node_resources' = IF e.resources = "node_resources"
                                THEN inserted.resources ELSE node_resources
           /\ connection_resources' = IF e.resources = "connection_resources"
                                      THEN inserted.resources ELSE connection_resources
           /\ events_resources' = IF e.resources = "events_resources"
                                  THEN inserted.resources ELSE events_resources
           /\ success' = TRUE
    /\ dirty' = IF success' THEN dirty \cup { "main" } ELSE dirty
    /\ pc_main' = "notify"
    /\ UNCHANGED << shutdown, events_port, holders, ip, ret,
                    connection_resource, mainWoken, mutVars, actVars >>

\* insert_resource_after, lines 56-57
MainInsert ==
    /\ pc_main = "insert"
    /\ LET e == Program(events_port)[ip]
           inserted == insert_resource(ResourcesNamed(e.resources),
                                       << e.id, e.type >>, InsertedData(e))
       IN  /\ node_resources' = IF e.resources = "node_resources"
                                THEN inserted.resources ELSE node_resources
           /\ connection_resources' = IF e.resources = "connection_resources"
                                      THEN inserted.resources ELSE connection_resources
           /\ events_resources' = IF e.resources = "events_resources"
                                  THEN inserted.resources ELSE events_resources
           /\ success' = inserted.second
    /\ dirty' = IF success' THEN dirty \cup { "main" } ELSE dirty
    /\ pc_main' = "notify"
    /\ UNCHANGED << shutdown, events_port, holders, ip, ret,
                    connection_resource, mainWoken, mutVars, actVars >>

\* insert_resource_after, lines 64-67: model.notify(); return success
MainNotify ==
    /\ pc_main = "notify"
    /\ Notify("main")
    /\ ret' = success
    /\ pc_main' = "ret"
    /\ UNCHANGED << stores, shutdown, events_port, holders, ip, success,
                    connection_resource, mutVars, actVars >>

\* MainReturn with the value insert_resource_after returned not tested
MainReturn_Unchecked ==
    /\ pc_main = "ret"
    /\ ip' = ip + 1
    /\ pc_main' = IF ip + 1 \in DOMAIN Program(events_port)
                  THEN "body" ELSE "do_while"
    /\ UNCHANGED << stores, shutdown, events_port, holders, success, ret,
                    connection_resource, mainWoken, mutVars, actVars, dirty >>

\* if (!insert_resource_after(...)) return;
MainReturn ==
    /\ pc_main = "ret"
    /\ IF ret
       THEN /\ ip' = ip + 1
            /\ pc_main' = IF ip + 1 \in DOMAIN Program(events_port)
                          THEN "body" ELSE "do_while"
            /\ UNCHANGED holders
       ELSE /\ pc_main' = "done"
            /\ holders' = holders \ { "main" }
            /\ UNCHANGED ip
    /\ UNCHANGED << stores, shutdown, events_port, success, ret,
                    connection_resource, mainWoken, mutVars, actVars, dirty >>

\* lines 175-199: pplx::do_while starts the first iteration, whose
\* complete_after timer is pending
MainStartMutator ==
    /\ pc_main = "do_while"
    /\ pc_mut' = "waiting"
    /\ pc_main' = "wait"
    /\ UNCHANGED << stores, shutdown, events_port, holders, mainLocals,
                    mainWoken, token, mutationsAfterCancel, actVars, dirty >>

\* line 202: shutdown_condition.wait(lock, [&] { return model.shutdown; })
MainWaitShutdown ==
    /\ pc_main = "wait"
    /\ IF shutdown
       THEN pc_main' = "cancel" /\ UNCHANGED << holders, mainWoken >>
       ELSE /\ holders' = holders \ { "main" }
            /\ pc_main' = "blocked_shutdown"
            /\ mainWoken' = FALSE
    /\ UNCHANGED << stores, shutdown, events_port, mainLocals, mutVars,
                    actVars, dirty >>

\* the wait of line 202 is notified: the lock is taken again
MainWakeShutdown ==
    /\ pc_main = "blocked_shutdown"
    /\ mainWoken
    /\ holders = {}
    /\ holders' = { "main" }
    /\ mainWoken' = FALSE
    /\ pc_main' = "wait"
    /\ UNCHANGED << stores, shutdown, events_port, mainLocals, mutVars,
                    actVars, dirty >>

\* line 204: cancellation_source.cancel()
MainCancel ==
    /\ pc_main = "cancel"
    /\ token' = TRUE
    /\ pc_main' = "unlock"
    /\ UNCHANGED << stores, shutdown, events_port, holders, mainLocals,
                    mainWoken, pc_mut, mutationsAfterCancel, actVars, dirty >>

\* MainUnlock without the reverse_lock_guard: the lock is kept
MainUnlock_KeepsLock ==
    /\ pc_main = "unlock"
    /\ pc_main' = "join"
    /\ UNCHANGED << stores, shutdown, events_port, holders, mainLocals,
                    mainWoken, mutVars, actVars, dirty >>

\* line 206: reverse_lock_guard unlocks the write lock
MainUnlock ==
    /\ pc_main = "unlock"
    /\ holders' = holders \ { "main" }
    /\ pc_main' = "join"
    /\ UNCHANGED << stores, shutdown, events_port, mainLocals, mainWoken,
                    mutVars, actVars, dirty >>

\* line 207: temperature_events.wait() returns when the task has ended
MainJoin ==
    /\ pc_main = "join"
    /\ pc_mut = "cancelled"
    /\ pc_main' = "relock"
    /\ UNCHANGED << stores, shutdown, events_port, holders, mainLocals,
                    mainWoken, mutVars, actVars, dirty >>

\* line 208: ~reverse_lock_guard locks the write lock again
MainRelock ==
    /\ pc_main = "relock"
    /\ holders = {}
    /\ holders' = { "main" }
    /\ pc_main' = "exit"
    /\ UNCHANGED << stores, shutdown, events_port, mainLocals, mainWoken,
                    mutVars, actVars, dirty >>

\* line 208: the write lock is destroyed and the thread function returns
MainExit ==
    /\ pc_main = "exit"
    /\ holders' = holders \ { "main" }
    /\ pc_main' = "done"
    /\ UNCHANGED << stores, shutdown, events_port, mainLocals, mainWoken,
                    mutVars, actVars, dirty >>

-----------------------------------------------------------------------------
(* The temperature_events task *)

\* the C++ remainder a % b for b > 0: truncated towards zero
rem(a, b) == IF a >= 0 THEN a % b ELSE -((-a) % b)

abs(x) == IF x >= 0 THEN x ELSE -x

\* line 185: 175.0 + std::abs(nmos::tai_now().seconds % 100 - 50)
temperature_value(seconds) == 175 + abs(rem(seconds, 100) - 50)

\* the values nmos::tai_now().seconds takes when a cycle runs
Seconds == { 0, 50, 125 }

\* MutTimer with complete_after not given the token: the timer fires and
\* the continuation runs whether or not cancellation was requested
MutTimer_NoToken ==
    /\ pc_mut = "waiting"
    /\ pc_mut' = "acquire"
    /\ UNCHANGED << stores, shutdown, events_port, holders, pc_main, mainLocals,
                    mainWoken, token, mutationsAfterCancel, actVars, dirty >>

\* the complete_after timer fires before cancellation: the continuation
\* starts and, at line 182, asks for the write lock
MutTimer ==
    /\ pc_mut = "waiting"
    /\ ~ token
    /\ pc_mut' = "acquire"
    /\ UNCHANGED << stores, shutdown, events_port, holders, pc_main, mainLocals,
                    mainWoken, token, mutationsAfterCancel, actVars, dirty >>

\* the token is cancelled while the timer is pending (or before the next
\* iteration starts): complete_after is cancelled, the continuation does
\* not run and do_while ends
MutCancelled ==
    /\ pc_mut = "waiting"
    /\ token
    /\ pc_mut' = "cancelled"
    /\ UNCHANGED << stores, shutdown, events_port, holders, pc_main, mainLocals,
                    mainWoken, token, mutationsAfterCancel, actVars, dirty >>

\* MutLock with the write lock not taken
MutLock_NoLock ==
    /\ pc_mut = "acquire"
    /\ pc_mut' = "modify"
    /\ UNCHANGED << stores, shutdown, events_port, holders, pc_main, mainLocals,
                    mainWoken, token, mutationsAfterCancel, actVars, dirty >>

\* MutLock with the write lock a temporary, model.write_lock(); with no
\* name: it is taken and given up at once
MutLock_Temporary ==
    /\ pc_mut = "acquire"
    /\ holders = {}
    /\ pc_mut' = "modify"
    /\ UNCHANGED << stores, shutdown, events_port, holders, pc_main, mainLocals,
                    mainWoken, token, mutationsAfterCancel, actVars, dirty >>

\* line 182: auto lock = model.write_lock()
MutLock ==
    /\ pc_mut = "acquire"
    /\ holders = {}
    /\ holders' = { "mutator" }
    /\ pc_mut' = "modify"
    /\ UNCHANGED << stores, shutdown, events_port, pc_main, mainLocals,
                    mainWoken, token, mutationsAfterCancel, actVars, dirty >>

\* the state of a resource while the assignment of line 190 is being
\* made: the new state's value is written, the rest of the state is not yet
half_assigned(state, endpoint_state) ==
    [ state EXCEPT !.value = endpoint_state.value ]

\* lines 185-190: the value is computed from the clock, modify_resource
\* finds the temperature event source and the modifier starts to assign its
\* new state
MutModify ==
    /\ pc_mut = "modify"
    /\ \E seconds \in Seconds :
          LET value == temperature_value(seconds)
              endpoint_state ==
                  make_events_number_state(temperature_source_id, value,
                                           "number/temperature/C")
          IN  events_resources' =
                  [ k \in DOMAIN events_resources |->
                      IF k[1] = temperature_source_id
                      THEN [ events_resources[k] EXCEPT !.state =
                                 half_assigned(@, endpoint_state) ]
                      ELSE events_resources[k] ]
    /\ mutationsAfterCancel' =
          IF token /\ mutationsAfterCancel < MaxCounted
          THEN mutationsAfterCancel + 1 ELSE mutationsAfterCancel
    /\ pc_mut' = "assign"
    /\ UNCHANGED << node_resources, connection_resources, shutdown, events_port,
                    holders, pc_main, mainLocals, mainWoken, token, actVars,
                    dirty >>

\* lines 190-191: the assignment is complete and modify_resource returns;
\* the state is the one make_events_number_state made for the value written
MutAssigned ==
    /\ pc_mut = "assign"
    /\ events_resources' =
          IF \E k \in DOMAIN events_resources : k[1] = temperature_source_id
          THEN LET k == CHOOSE k \in DOMAIN events_resources :
                                k[1] = temperature_source_id
               IN  modify_resource(events_resources, temperature_source_id,
                       make_events_number_state(temperature_source_id,
                           events_resources[k].state.value,
                           "number/temperature/C"))
          ELSE modify_resource(events_resources, temperature_source_id, null)
    /\ dirty' = IF \E k \in DOMAIN events_resources : k[1] = temperature_source_id
                THEN dirty \cup { "mutator" } ELSE dirty
    /\ pc_mut' = "notify"
    /\ UNCHANGED << node_resources, connection_resources, shutdown, events_port,
                    holders, pc_main, mainLocals, mainWoken, token,
                    mutationsAfterCancel, actVars >>

\* MutNotify with the lock given up before the model.notify() call
MutNotify_AfterUnlock ==
    /\ pc_mut = "notify"
    /\ Notify("mutator")
    /\ holders' = holders \ { "mutator" }
    /\ pc_mut' = "return"
    /\ UNCHANGED << stores, shutdown, events_port, pc_main, mainLocals,
                    mutationsAfterCancel, token, actVars >>

\* MutNotify with the model.notify() call left out
MutNotify_Missing ==
    /\ pc_mut = "notify"
    /\ pc_mut' = "return"
    /\ UNCHANGED << stores, shutdown, events_port, holders, pc_main, mainLocals,
                    mainWoken, mutationsAfterCancel, token, actVars, dirty >>

\* line 195: model.notify()
MutNotify ==
    /\ pc_mut = "notify"
    /\ Notify("mutator")
    /\ pc_mut' = "return"
    /\ UNCHANGED << stores, shutdown, events_port, holders, pc_main, mainLocals,
                    mutationsAfterCancel, token, actVars >>

\* MutReturn with the result of modify_resource returned instead of true:
\* do_while stops when the temperature event source was not found
MutReturn_ResultReturned ==
    /\ pc_mut = "return"
    /\ holders' = holders \ { "mutator" }
    /\ pc_mut' = IF \E k \in DOMAIN events_resources : k[1] = temperature_source_id
                 THEN "waiting" ELSE "cancelled"
    /\ UNCHANGED << stores, shutdown, events_port, pc_main, mainLocals,
                    mainWoken, token, mutationsAfterCancel, actVars, dirty >>

\* MutReturn with the lock outliving the continuation (a lock that is not
\* a local of the lambda): it is still owned in the next interval
MutReturn_KeepsLock ==
    /\ pc_mut = "return"
    /\ pc_mut' = "waiting"
    /\ UNCHANGED << stores, shutdown, events_port, holders, pc_main, mainLocals,
                    mainWoken, token, mutationsAfterCancel, actVars, dirty >>

\* lines 197-198: return true destroys the lock; do_while starts the next
\* iteration
MutReturn ==
    /\ pc_mut = "return"
    /\ holders' = holders \ { "mutator" }
    /\ pc_mut' = "waiting"
    /\ UNCHANGED << stores, shutdown, events_port, pc_main, mainLocals,
                    mainWoken, token, mutationsAfterCancel, actVars, dirty >>

-----------------------------------------------------------------------------
(* An inbound activation: the Connection API, holding the write lock,      *)
(* copies the staged transport_params to active, calls the auto resolver   *)
(* and, for a sender, the transportfile setter, and commits the result     *)

\* a leg as a client's PATCH /staged leaves it: every "auto" replaced by a
\* value of the client's
patched(leg) ==
    [ key \in DOMAIN leg |-> IF leg[key] = auto THEN "client" ELSE leg[key] ]

\* the staged transport_params of a connection resource as constructed
StagedDefault(id) ==
    IF id = sender_id THEN << rtp_sender_leg, rtp_sender_leg >>
    ELSE IF id = receiver_id THEN << rtp_receiver_leg, rtp_receiver_leg >>
    ELSE IF id = temperature_ws_sender_id THEN << ws_sender_leg >>
    ELSE << ws_receiver_leg >>

\* the staged transport_params an activation starts from: all "auto", all
\* set by the client, and the first leg only set by the client
StagedChoices(id) ==
    LET staged == StagedDefault(id)
    IN  { staged,
          [ i \in DOMAIN staged |-> patched(staged[i]) ],
          [ i \in DOMAIN staged |-> IF i = 1 THEN patched(staged[i]) ELSE staged[i] ] }

ActBegin ==
    /\ pc_act = "idle"
    /\ activations < MaxActivations
    /\ holders = {}
    /\ \E id_type \in DOMAIN connection_resources :
          /\ id_type \in DOMAIN node_resources
          /\ \E staged \in StagedChoices(id_type[1]) :
                act' = [ id_type |-> id_type, staged |-> staged, threw |-> FALSE ]
    /\ holders' = { "activation" }
    /\ activations' = activations + 1
    /\ pc_act' = "activate"
    /\ UNCHANGED << stores, shutdown, events_port, pc_main, mainLocals,
                    mainWoken, mutVars, dirty >>

ActApply ==
    /\ pc_act = "activate"
    /\ LET id_type == act.id_type
           before == connection_resources[id_type]
           resolved == [ before EXCEPT
                           !.staged = act.staged,
                           !.active = resolve_auto(id_type[1], id_type[2], act.staged) ]
           set == IF id_type[2] = "sender"
                  THEN set_transportfile(node_resources, node_resources[id_type],
                                         resolved, resolved.transportfile)
                  ELSE [ threw |-> FALSE,
                         endpoint_transportfile |-> resolved.transportfile ]
       IN  IF set.threw
           THEN /\ pc_act' = "release"
                /\ act' = [ act EXCEPT !.threw = TRUE ]
                /\ UNCHANGED << connection_resources, dirty >>
           ELSE /\ connection_resources' =
                     [ connection_resources EXCEPT ![id_type] =
                         [ resolved EXCEPT !.transportfile = set.endpoint_transportfile ] ]
                /\ dirty' = dirty \cup { "activation" }
                /\ pc_act' = "notify"
                /\ UNCHANGED act
    /\ UNCHANGED << node_resources, events_resources, shutdown, events_port,
                    holders, pc_main, mainLocals, mainWoken, mutVars,
                    activations >>

ActNotify ==
    /\ pc_act = "notify"
    /\ Notify("activation")
    /\ pc_act' = "release"
    /\ UNCHANGED << stores, shutdown, events_port, holders, pc_main, mainLocals,
                    mutVars, act, activations >>

ActRelease ==
    /\ pc_act = "release"
    /\ holders' = holders \ { "activation" }
    /\ pc_act' = "idle"
    /\ UNCHANGED << stores, shutdown, events_port, pc_main, mainLocals,
                    mainWoken, mutVars, act, activations, dirty >>

-----------------------------------------------------------------------------
(* The server sets model.shutdown under the write lock and notifies *)

SetShutdown ==
    /\ ~ shutdown
    /\ holders = {}
    /\ shutdown' = TRUE
    /\ mainWoken' = ( mainWoken \/ pc_main \in { "blocked", "blocked_shutdown" } )
    /\ UNCHANGED << stores, events_port, holders, pc_main, mainLocals, mutVars,
                    actVars, dirty >>

-----------------------------------------------------------------------------
(* A reader of the events resources, such as the Events API answering a    *)
(* request for the state of a source: it takes the lock, finds the         *)
(* temperature event source, reads its state and gives the lock up         *)

ReadBegin ==
    /\ reader.pc = "idle"
    /\ holders = {}
    /\ holders' = { "reader" }
    /\ reader' = [ reader EXCEPT !.pc = "find" ]
    /\ UNCHANGED << stores, shutdown, events_port, pc_main, mainLocals,
                    mainWoken, mutVars, actVars, dirty, call >>

ReadFind ==
    /\ reader.pc = "find"
    /\ reader' =
          [ pc |-> "found",
            state |-> IF find_resource(events_resources,
                                       << temperature_source_id, "source" >>)
                      THEN events_resources[<< temperature_source_id, "source" >>].state
                      ELSE null ]
    /\ UNCHANGED << program, call >>

ReadRelease ==
    /\ reader.pc = "found"
    /\ holders' = holders \ { "reader" }
    /\ reader' = NoReader
    /\ UNCHANGED << stores, shutdown, events_port, pc_main, mainLocals,
                    mainWoken, mutVars, actVars, dirty, call >>

-----------------------------------------------------------------------------

MainNext ==
    /\ \/ MainLock \/ MainMake \/ MainWaitFor \/ MainWakeTimeout
       \/ MainWakeNotified \/ MainInsert \/ MainNotify \/ MainReturn
       \/ MainStartMutator \/ MainWaitShutdown \/ MainWakeShutdown
       \/ MainCancel \/ MainUnlock \/ MainJoin \/ MainRelock \/ MainExit
    /\ UNCHANGED others

MutNext ==
    /\ \/ MutTimer \/ MutCancelled \/ MutLock \/ MutModify \/ MutAssigned
       \/ MutNotify \/ MutReturn
    /\ UNCHANGED others

ActNext ==
    /\ ActBegin \/ ActApply \/ ActNotify \/ ActRelease
    /\ UNCHANGED others

Next ==
    \/ MainNext
    \/ MutNext
    \/ ActNext
    \/ SetShutdown /\ UNCHANGED others

Spec == Init /\ [][Next]_vars

\* an activation that has begun runs to its end
ActFinish ==
    /\ ActApply \/ ActNotify \/ ActRelease
    /\ UNCHANGED others

\* The threads are scheduled, and a thread that asks for the write lock
\* gets it although the temperature task takes it again and again: the
\* task leaves the lock free for the 0.5 to 5 seconds of each interval.
\* Nothing makes the server set shutdown or begin an activation.
FairSpec ==
    /\ Spec
    /\ SF_vars(MainNext)
    /\ SF_vars(MutNext)
    /\ WF_vars(ActFinish)

\* the program with a reader of the events resources beside it
ReaderNext == ReadBegin \/ ReadFind \/ ReadRelease

ReadNext == Next \/ ReaderNext

ReadSpec == Init /\ [][ReadNext]_vars

-----------------------------------------------------------------------------
(* insert_resource_after and the two activation callbacks on their own:    *)
(* one call of the setup sequence's current statement, and activations,    *)
(* on a model drawn from a bounded set of models. The models are those     *)
(* the first k statements of the sequence build, with the example source   *)
(* or the example flow possibly absent, so that an insert may meet a       *)
(* resource that is already there and the transportfile setter may miss    *)
(* its source or flow.                                                     *)

\* the model and the local connection resource after statements 1..k ran
\* without interruption
RECURSIVE StoreAfter(_, _)
StoreAfter(k, port) ==
    IF k = 0
    THEN [ node_resources |-> EmptyResources,
           connection_resources |-> EmptyResources,
           events_resources |-> EmptyResources,
           connection_resource |-> null ]
    ELSE LET s == StoreAfter(k - 1, port)
             e == Program(port)[k]
             data == IF e.resources = "node_resources" THEN NodeData(e.var, port)
                     ELSE IF e.resources = "connection_resources"
                          THEN s.connection_resource
                          ELSE events_temperature_source
         IN  IF e.op = "make"
             THEN [ s EXCEPT !.connection_resource =
                        Built(e, s.node_resources, port).resource ]
             ELSE [ s EXCEPT ![e.resources] =
                        insert_resource(s[e.resources], << e.id, e.type >>, data).resources ]

Remove(resources, keys) ==
    [ k \in (DOMAIN resources) \ keys |-> resources[k] ]

\* the resources that may be absent from the drawn model
Absent == { {}, { << source_id, "source" >> }, { << flow_id, "flow" >> } }

UnitInit ==
    /\ reader = NoReader
    /\ call = NoCall
    /\ events_port \in EventsPorts
    /\ \E k \in 0..Len(Program(events_port)) : \E absent \in Absent :
          /\ node_resources = Remove(StoreAfter(k, events_port).node_resources, absent)
          /\ connection_resources = StoreAfter(k, events_port).connection_resources
          /\ events_resources = StoreAfter(k, events_port).events_resources
    /\ ip \in DOMAIN Program(events_port)
    /\ connection_resource = StoreAfter(ip - 1, events_port).connection_resource
    /\ pc_main = "body"
    /\ holders = { "main" }
    /\ shutdown = FALSE
    /\ success = FALSE
    /\ ret = FALSE
    /\ mainWoken = FALSE
    /\ token = FALSE
    /\ pc_mut = "idle"
    /\ pc_act = "idle"
    /\ act = NoActivation
    /\ activations = 0
    /\ dirty = {}
    /\ mutationsAfterCancel = 0

UnitNext ==
    \/ /\ \/ MainMake \/ MainWaitFor \/ MainWakeTimeout \/ MainWakeNotified
          \/ MainInsert \/ MainNotify
       /\ UNCHANGED others
    \/ ActNext
    \/ SetShutdown /\ UNCHANGED others

UnitSpec == UnitInit /\ [][UnitNext]_vars

-----------------------------------------------------------------------------
(* The auto resolver, the transportfile setter and the temperature value   *)
(* on their own: each is called, on inputs drawn from bounded sets, as the *)
(* Connection API or the continuation calls it                             *)

\* the number of times the auto resolver is applied to one transport_params
MaxCalls == 2

\* the clock readings tried are -MaxSeconds .. MaxSeconds
MaxSeconds == 150

\* the ids the auto resolver compares with (lines 247, 255, 261, 266)
KnownIds ==
    { sender_id, receiver_id, temperature_ws_sender_id,
      temperature_ws_receiver_id }

\* the legs a client's PATCH /staged can make of a leg: each parameter that
\* may be "auto" is "auto" or a value of the client's
LegChoices(leg) ==
    { l \in [ DOMAIN leg -> { auto, "client" } \cup { leg[key] : key \in DOMAIN leg } ] :
        \A key \in DOMAIN leg :
            IF leg[key] = auto THEN l[key] \in { auto, "client" }
                              ELSE l[key] = leg[key] }

\* the transport_params the resolver is given for a connection resource:
\* those of the resource's shape; a sender the resolver does not know has
\* the shape of an RTP sender
ParamChoices(id) ==
    LET staged == IF id = other_id THEN StagedDefault(sender_id)
                                   ELSE StagedDefault(id)
    IN  [ DOMAIN staged -> LegChoices(staged[1]) ]

\* the type of the connection resource with an id
TypeOf(id) ==
    IF id \in { receiver_id, temperature_ws_receiver_id } THEN "receiver"
                                                          ELSE "sender"

\* the connection resource with an id, its active transport_params resolved
ConnectionOf(id) ==
    LET staged == IF id = other_id THEN StagedDefault(sender_id)
                                   ELSE StagedDefault(id)
    IN  [ id |-> id, type |-> TypeOf(id), staged |-> staged,
          active |-> resolve_auto(id, TypeOf(id), staged),
          transportfile |-> null ]

\* the IS-04 sender passed to the transportfile setter with the connection
\* resource with an id
SenderOf(id) ==
    IF id = temperature_ws_sender_id
    THEN NodeData("temperature_ws_sender", 0)
    ELSE NodeData("sender", 0)

\* the node resources the transportfile setter looks in: none, all those
\* of the setup sequence, and all but the example flow
ResourcesChoices ==
    LET all == StoreAfter(Len(Program(0)), 0).node_resources
    IN  { EmptyResources, all, Remove(all, { << flow_id, "flow" >> }) }

\* what the output field holds before the call: nothing, or an earlier file
TransportfileChoices ==
    { null, make_connection_rtp_sender_transportfile("v=0") }

NewCall(fn, id, in) ==
    [ fn |-> fn, id |-> id, type |-> TypeOf(id), in |-> in, out |-> in,
      prev |-> in, threw |-> FALSE, calls |-> 0 ]

CallInit ==
    /\ \/ \E id \in KnownIds \cup { other_id } : \E transport_params \in ParamChoices(id) :
             call = NewCall("resolve_auto", id, transport_params)
       \/ \E id \in { sender_id, temperature_ws_sender_id, other_id } :
          \E resources \in ResourcesChoices :
          \E endpoint_transportfile \in TransportfileChoices :
             call = [ NewCall("set_transportfile", id,
                              [ resources |-> resources,
                                endpoint_transportfile |-> endpoint_transportfile ])
                      EXCEPT !.out = endpoint_transportfile,
                             !.prev = endpoint_transportfile ]
       \/ \E seconds \in (-MaxSeconds)..MaxSeconds :
             call = NewCall("temperature_value", "", seconds)
    /\ reader = NoReader
    /\ node_resources = EmptyResources
    /\ connection_resources = EmptyResources
    /\ events_resources = EmptyResources
    /\ shutdown = FALSE
    /\ events_port = 0
    /\ holders = {}
    /\ pc_main = "lock"
    /\ ip = 1
    /\ success = FALSE
    /\ ret = FALSE
    /\ connection_resource = null
    /\ mainWoken = FALSE
    /\ token = FALSE
    /\ pc_mut = "idle"
    /\ pc_act = "idle"
    /\ act = NoActivation
    /\ activations = 0
    /\ dirty = {}
    /\ mutationsAfterCancel = 0

\* lines 241-270: the resolver is applied to the transport_params as they
\* are; the lambda returns void and has no throw
ResolveCall ==
    /\ call.fn = "resolve_auto"
    /\ call.calls < MaxCalls
    /\ call' = [ call EXCEPT
                   !.prev = call.out,
                   !.out = resolve_auto(call.id, call.type, call.out),
                   !.threw = FALSE,
                   !.calls = call.calls + 1 ]
    /\ UNCHANGED << program, reader >>

\* lines 284-302: the setter is called for the connection resource of a
\* sender with the node resources and the output field of the input
BuildCall ==
    /\ call.fn = "set_transportfile"
    /\ call.calls = 0
    /\ LET set == set_transportfile(call.in.resources,
                                    SenderOf(call.id),
                                    ConnectionOf(call.id),
                                    call.in.endpoint_transportfile)
       IN  call' = [ call EXCEPT
                       !.out = set.endpoint_transportfile,
                       !.threw = set.threw,
                       !.calls = 1 ]
    /\ UNCHANGED << program, reader >>

\* line 185: the value for a reading of the clock
ValueCall ==
    /\ call.fn = "temperature_value"
    /\ call.calls = 0
    /\ call' = [ call EXCEPT !.out = temperature_value(call.in), !.calls = 1 ]
    /\ UNCHANGED << program, reader >>

CallNext == ResolveCall \/ BuildCall \/ ValueCall

CallSpec == CallInit /\ [][CallNext]_vars

-----------------------------------------------------------------------------
(* Properties *)

\* the statement node_implementation_thread is at
Statement == Program(events_port)[ip]

\* the example sender's source and flow are in the node resources
SourceAndFlowPresent ==
    /\ find_resource(node_resources, << source_id, "source" >>)
    /\ find_resource(node_resources, << flow_id, "flow" >>)

\* C1: at most one task owns the write lock, and a task that is at an
\* insert into, a modification of or a read of the model's resources (the
\* setup sequence at a statement, at insert_resource or at notify; the
\* temperature task from modify_resource to the end of its continuation;
\* an activation from its start to its release) owns it.
C1_LockedAccess ==
    /\ Cardinality(holders) <= 1
    /\ pc_main \in { "body", "insert", "notify", "ret" } => "main" \in holders
    /\ pc_mut \in { "modify", "assign", "notify", "return" }
          => "mutator" \in holders
    /\ pc_act \in { "activate", "notify", "release" } => "activation" \in holders

\* the temperature task modifies the event source under the lock while the
\* setup thread, having released it, waits for the task to end
C1_Witness ==
    /\ pc_mut = "modify"
    /\ holders = { "mutator" }
    /\ pc_main = "join"
    /\ events_resources # EmptyResources

\* C2: after cancel() the temperature task calls modify_resource at most
\* once more; once ended it stays ended; and, the threads being scheduled
\* fairly, it does end and temperature_events.wait() returns.
C2_CancelEndsTask ==
    /\ [](mutationsAfterCancel <= 1)
    /\ [][pc_mut = "cancelled" => pc_mut' = "cancelled"]_vars
    /\ (token ~> pc_mut = "cancelled")
    /\ (token ~> pc_main \in { "relock", "exit", "done" })

\* one modification was made after cancel() and the wait has returned
C2_Witness ==
    /\ token
    /\ mutationsAfterCancel = 1
    /\ pc_mut = "cancelled"
    /\ pc_main = "done"

\* C3: while the setup thread waits for the cancelled task it does not own
\* the write lock; a continuation of the task that asked for the lock gets
\* it; and once shutdown is set the thread function returns.
C3_ShutdownDrains ==
    /\ [](pc_main = "join" => "main" \notin holders)
    /\ ((pc_main = "join" /\ pc_mut = "acquire") ~> pc_mut = "modify")
    /\ (shutdown ~> pc_main = "done")

\* the thread waits for the task while the task's continuation waits for
\* the lock
C3_Witness ==
    /\ pc_main = "join"
    /\ pc_mut = "acquire"
    /\ shutdown
    /\ token

\* C4: an insert_resource_after call whose resource's (id, type) is already
\* in the namespace it names changes none of the three namespaces and sets
\* success to false, and what it then returns is success.
C4_DuplicateInsert ==
    [][ /\ ( /\ pc_main = "insert"
             /\ pc_main' = "notify"
             /\ find_resource(ResourcesNamed(Statement.resources),
                              << Statement.id, Statement.type >>) )
           => ( UNCHANGED stores /\ success' = FALSE )
        /\ ( pc_main = "notify" /\ pc_main' = "ret" ) => ( ret' = success )
      ]_vars

\* insert_resource_after has returned false for a resource that was already
\* in the namespace, shutdown not being set
C4_Witness ==
    /\ pc_main = "ret"
    /\ ~ ret
    /\ ~ shutdown
    /\ ~ success
    /\ find_resource(ResourcesNamed(Statement.resources),
                     << Statement.id, Statement.type >>)

\* C5: an insert_resource_after call that reaches insert_resource (shutdown
\* was not seen) with a resource whose (id, type) is not in the namespace
\* it names succeeds; the resource is then found there, with the data
\* inserted; that namespace has one resource more and the other two are
\* unchanged.
C5_FreshInsert ==
    [][ ( /\ pc_main = "insert"
          /\ pc_main' = "notify"
          /\ ~ find_resource(ResourcesNamed(Statement.resources),
                             << Statement.id, Statement.type >>) )
        => ( /\ success' = TRUE
             /\ find_resource(ResourcesNamed(Statement.resources)',
                              << Statement.id, Statement.type >>)
             /\ ResourcesNamed(Statement.resources)'[<< Statement.id, Statement.type >>]
                    = InsertedData(Statement)
             /\ Cardinality(DOMAIN ResourcesNamed(Statement.resources)')
                    = Cardinality(DOMAIN ResourcesNamed(Statement.resources)) + 1
             /\ \A name \in { "node_resources", "connection_resources",
                              "events_resources" } \ { Statement.resources } :
                    ResourcesNamed(name)' = ResourcesNamed(name) )
      ]_vars

\* the temperature event source has just been inserted into the events
\* resources, which were empty
C5_Witness ==
    /\ pc_main = "notify"
    /\ success
    /\ Statement.resources = "events_resources"
    /\ Cardinality(DOMAIN events_resources) = 1

\* C6: the active transport_params of every connection resource in the
\* model hold no "auto".
C6_NoAutoActive ==
    \A id_type \in DOMAIN connection_resources :
        ~ HasAuto(connection_resources[id_type].active)

\* the four example connection resources are in the model and the example
\* sender has been activated from staged parameters that held "auto"
C6_Witness ==
    /\ { id_type[1] : id_type \in DOMAIN connection_resources }
          = { sender_id, receiver_id, temperature_ws_sender_id,
              temperature_ws_receiver_id }
    /\ pc_act = "release"
    /\ act.id_type[1] = sender_id
    /\ HasAuto(connection_resources[act.id_type].staged)

\* C7: whenever the example sender's connection resource is in the
\* connection resources, or has been built by the setup sequence, or is
\* about to be built by it, the example source and flow are in the node
\* resources; set_transportfile never throws out of the setup sequence.
C7_SourceFlowFirst ==
    /\ find_resource(connection_resources, << sender_id, "sender" >>)
          => SourceAndFlowPresent
    /\ ( connection_resource # null /\ connection_resource.id = sender_id )
          => SourceAndFlowPresent
    /\ ( /\ pc_main = "body"
         /\ ip \in DOMAIN Program(events_port)
         /\ Statement.op = "make"
         /\ Statement.var = "connection_sender" )
          => SourceAndFlowPresent
    /\ pc_main # "threw"

\* the setup sequence has built the example sender's connection resource,
\* transportfile included, and not yet inserted it
C7_Witness ==
    /\ connection_resource # null
    /\ connection_resource.id = sender_id
    /\ connection_resource.transportfile # null
    /\ ~ find_resource(connection_resources, << sender_id, "sender" >>)

\* C8: when the example source or flow is not in the node resources, a
\* call of set_transportfile for the example sender, by an activation or
\* by the setup sequence, throws: the activation is abandoned, or the
\* thread function is left, and the three namespaces and the connection
\* resource being built are as before.
C8_BuildWithoutSourceOrFlow ==
    [][ /\ ( /\ ~ SourceAndFlowPresent
             /\ pc_act = "activate"
             /\ pc_act' # "activate"
             /\ act.id_type[1] = sender_id )
           => ( act'.threw /\ pc_act' = "release" /\ UNCHANGED stores )
        /\ ( /\ ~ SourceAndFlowPresent
             /\ pc_main = "body"
             /\ Statement.op = "make"
             /\ Statement.var = "connection_sender"
             /\ << pc_main, ip >>' # << pc_main, ip >> )
           => ( pc_main' = "threw" /\ UNCHANGED << stores, connection_resource >> )
      ]_vars

\* an activation of the example sender was abandoned because the source or
\* the flow was missing
C8_Witness ==
    /\ act.threw
    /\ act.id_type[1] = sender_id
    /\ ~ SourceAndFlowPresent
    /\ find_resource(connection_resources, << sender_id, "sender" >>)

\* the resources of the statements after the one the thread is at are in
\* none of the namespaces
LaterAbsent ==
    \A j \in DOMAIN Program(events_port) :
        ( j > ip /\ Program(events_port)[j].op = "insert" )
            => ~ find_resource(ResourcesNamed(Program(events_port)[j].resources),
                               << Program(events_port)[j].id,
                                  Program(events_port)[j].type >>)

C10_NotifyAfterChange ==
    /\ "main" \in dirty => pc_main = "notify"
    /\ "mutator" \in dirty => pc_mut = "notify"

\* the temperature task has modified the event source and notified, every
\* insert of the setup sequence having been notified too
C10_Witness ==
    /\ pc_mut = "return"
    /\ find_resource(events_resources, << temperature_source_id, "source" >>)
    /\ events_resources[<< temperature_source_id, "source" >>].state.value
          # events_temperature_source.state.value
    /\ dirty = {}

\* the resource of the statement the thread is at is in the namespace the
\* statement names
PendingPresent ==
    find_resource(ResourcesNamed(Statement.resources),
                  << Statement.id, Statement.type >>)

\* C11: while node_implementation_thread is blocked in the wait_for of
\* insert_resource_after it does not own the write lock. Once shutdown is
\* set with the thread before or in that wait, the thread does not reach
\* insert_resource: the wait returns with the lock owned again and
\* insert_resource_after returns false; the thread function returns, the
\* threads being scheduled; and neither the resource of the statement it
\* was at nor that of any later statement is in the model.
C11_ShutdownWakesWait ==
    /\ [](pc_main = "blocked" => "main" \notin holders)
    /\ [][ ( shutdown /\ pc_main \in { "body", "blocked" } )
            => /\ pc_main' \in { "body", "blocked", "ret" }
               /\ pc_main' \in { "body", "ret" } => "main" \in holders'
               /\ pc_main' = "ret" => ~ ret' ]_vars
    /\ ( ( shutdown /\ pc_main \in { "body", "blocked" } ) ~> pc_main = "done" )
    /\ []( ( shutdown /\ pc_main \in { "ret", "done" } /\ ~ ret )
             => ( ~ PendingPresent /\ LaterAbsent ) )

\* shutdown was set while the thread was blocked in the wait before the
\* insert of the example sender; the wait has returned, the lock is owned
\* again and insert_resource_after is about to return false
C11_Witness ==
    /\ shutdown
    /\ pc_main = "ret"
    /\ ~ ret
    /\ holders = { "main" }
    /\ Statement.var = "sender"
    /\ ~ PendingPresent

\* the states of the temperature event source between modifications: the
\* one it is inserted with and those the continuation assigns
CompleteStates ==
    { events_temperature_source.state }
    \cup { make_events_number_state(temperature_source_id,
                                    temperature_value(seconds),
                                    "number/temperature/C") : seconds \in Seconds }

\* C12: the state of the temperature event source that a reader holding
\* the lock finds is the state the source was inserted with or a state a
\* modification has assigned in full, never a state whose assignment is
\* under way; and it is the state the store holds while the reader keeps
\* the lock.
C12_NoTornRead ==
    /\ reader.pc \in { "find", "found" } => pc_mut # "assign"
    /\ ( reader.pc = "found" /\ reader.state # null )
          => /\ reader.state \in CompleteStates
             /\ reader.state
                  = events_resources[<< temperature_source_id, "source" >>].state

\* a reader has found a state the temperature task assigned, while the
\* task's next continuation waits for the lock the reader holds
C12_Witness ==
    /\ reader.pc = "found"
    /\ reader.state # null
    /\ reader.state # events_temperature_source.state
    /\ pc_mut = "acquire"
    /\ holders = { "reader" }

\* the parameters of transport_params that are not "auto" have the same
\* value in resolved, and resolved has the legs and parameters of
\* transport_params
ConcreteKept(transport_params, resolved) ==
    /\ DOMAIN resolved = DOMAIN transport_params
    /\ \A i \in DOMAIN transport_params :
          /\ DOMAIN resolved[i] = DOMAIN transport_params[i]
          /\ \A key \in DOMAIN transport_params[i] :
                transport_params[i][key] # auto
                    => resolved[i][key] = transport_params[i][key]

\* C13: for each of the four ids the resolver knows and each
\* transport_params of that connection resource's shape, a second
\* application of the resolver to the result of the first leaves it as it
\* is, and every parameter that was not "auto" before the first
\* application has the value it had.
C13_ResolveIdempotent ==
    ( call.fn = "resolve_auto" /\ call.id \in KnownIds )
        => /\ call.calls >= 2 => call.out = call.prev
           /\ call.calls >= 1 => ConcreteKept(call.in, call.out)

\* the resolver was applied twice to transport_params of the example
\* sender of which the first leg was set by the client and the second was
\* all "auto"
C13_Witness ==
    /\ call.fn = "resolve_auto"
    /\ call.id = sender_id
    /\ call.calls = 2
    /\ call.in = << patched(rtp_sender_leg), rtp_sender_leg >>
    /\ call.out # call.in
    /\ ~ HasAuto(call.out)

\* C14: the value the continuation computes for a reading of the clock is
\* at least 175 and at most 225, for negative readings too.
C14_ValueInRange ==
    ( call.fn = "temperature_value" /\ call.calls = 1 )
        => ( 175 <= call.out /\ call.out <= 225 )

\* C15: when a parameter is still "auto" after the resolver has run, the
\* resolver has reported an error.
C15_UnresolvedAutoIsError ==
    ( call.fn = "resolve_auto" /\ call.calls >= 1 /\ HasAuto(call.out) )
        => call.threw

\* C16: for a connection resource whose id is none of the four, the
\* resolver leaves transport_params as they were and reports no error; for
\* a connection resource whose id is not the example sender's, the
\* transportfile setter leaves the output field as it was and does not
\* throw, whatever the node resources hold.
C16_UnknownIdentityNoOp ==
    /\ ( call.fn = "resolve_auto" /\ call.id \notin KnownIds /\ call.calls >= 1 )
          => ( call.out = call.in /\ ~ call.threw )
    /\ ( call.fn = "set_transportfile" /\ call.id # sender_id /\ call.calls = 1 )
          => ( call.out = call.in.endpoint_transportfile /\ ~ call.threw )

\* the resolver was applied to transport_params, all "auto", of a sender it
\* does not know
C16_Witness ==
    /\ call.fn = "resolve_auto"
    /\ call.id = other_id
    /\ call.calls = 1
    /\ call.in = << rtp_sender_leg, rtp_sender_leg >>
    /\ call.out = call.in

\* a resource with the id modify_resource is given is in the events
\* resources
TemperatureSourcePresent ==
    \E k \in DOMAIN events_resources : k[1] = temperature_source_id

\* C17: a cycle of the temperature task in which modify_resource does not
\* find the temperature event source changes none of the namespaces and
\* leaves no change to notify; the task goes on to its next interval, the
\* threads being scheduled; and the task ends only when the token is
\* cancelled.
C17_FailedCycleContinues ==
    /\ [][ ( /\ pc_mut \in { "modify", "assign" }
             /\ ~ TemperatureSourcePresent
             /\ pc_mut' # pc_mut )
            => ( /\ UNCHANGED stores
                 /\ "mutator" \notin dirty'
                 /\ pc_mut' \in { "assign", "notify" } ) ]_vars
    /\ [][ ( pc_mut # "cancelled" /\ pc_mut' = "cancelled" ) => token ]_vars
    /\ ( ( pc_mut = "modify" /\ ~ TemperatureSourcePresent )
            ~> pc_mut = "waiting" )

\* with the events port disabled the temperature event source was never
\* inserted: a continuation has run to its end without finding it, before
\* any cancellation
C17_Witness ==
    /\ pc_mut = "return"
    /\ events_port < 0
    /\ ~ TemperatureSourcePresent
    /\ ~ token
    /\ dirty = {}

\* C18: while the temperature task is not started, is in its interval
\* wait or has ended, it does not own the write lock, which only the
\* setup thread or an activation can then own.
C18_LockOnlyWhileMutating ==
    pc_mut \in { "idle", "waiting", "cancelled" }
        => ( "mutator" \notin holders /\ holders \subseteq { "main", "activation" } )

\* an activation owns the write lock while the temperature task, having
\* modified the event source before, is in its interval wait
C18_Witness ==
    /\ pc_mut = "waiting"
    /\ holders = { "activation" }
    /\ pc_act = "activate"
    /\ TemperatureSourcePresent
    /\ events_resources[<< temperature_source_id, "source" >>].state
          # events_temperature_source.state

\* C19 as stated: once cancel() has been called the events resources are
\* not changed any more.
C19_NoMutationAfterCancel ==
    [][ token => events_resources' = events_resources ]_vars

\* C19, amended: once cancel() has been called the temperature task leaves
\* its interval wait only by ending; cancel() is called while no
\* continuation owns the lock, so that only a continuation whose interval
\* had elapsed before, and which waits for the lock, still runs; and at
\* most one modify_resource call follows cancel().
C19_NoNewCycleAfterCancel ==
    /\ [][ ( token /\ pc_mut = "waiting" )
            => pc_mut' \in { "waiting", "cancelled" } ]_vars
    /\ [][ ( ~ token /\ token' ) => pc_mut \in { "waiting", "acquire" } ]_vars
    /\ [][ ( token /\ pc_mut = "return" /\ pc_mut' # pc_mut )
            => ( pc_mut' = "waiting" /\ mutationsAfterCancel = 1 ) ]_vars
    /\ [](mutationsAfterCancel <= 1)

\* a continuation that waited for the lock when cancel() was called is
\* assigning the new state of the event source after cancel()
C19_Witness ==
    /\ token
    /\ pc_mut = "assign"
    /\ pc_main = "join"
    /\ TemperatureSourcePresent
    /\ mutationsAfterCancel = 1

\* C20 as stated: the temperature task calls model.notify() after it has
\* given up the write lock.
C20_SignalAfterRelease ==
    [][ ( pc_mut = "notify" /\ pc_mut' = "return" )
        => "mutator" \notin holders ]_vars

\* C20, amended: a cycle of the temperature task whose timer fires takes
\* the write lock, makes its one modify_resource call, calls
\* model.notify() still owning the lock and then gives the lock up; the
\* task changes the events resources in its modify_resource call only.
C20_CycleOrder ==
    [][ /\ ( pc_mut = "waiting" /\ pc_mut' # pc_mut )
             => pc_mut' \in { "acquire", "cancelled" }
        /\ ( pc_mut = "acquire" /\ pc_mut' # pc_mut )
             => ( /\ pc_mut' = "modify"
                  /\ "mutator" \notin holders
                  /\ "mutator" \in holders' )
        /\ ( pc_mut = "modify" /\ pc_mut' # pc_mut )
             => ( pc_mut' = "assign" /\ "mutator" \in holders' )
        /\ ( pc_mut = "assign" /\ pc_mut' # pc_mut )
             => ( pc_mut' = "notify" /\ "mutator" \in holders' )
        /\ ( pc_mut = "notify" /\ pc_mut' # pc_mut )
             => ( /\ pc_mut' = "return"
                  /\ "mutator" \in holders
                  /\ "mutator" \in holders'
                  /\ "mutator" \notin dirty' )
        /\ ( pc_mut = "return" /\ pc_mut' # pc_mut )
             => ( pc_mut' = "waiting" /\ "mutator" \notin holders' )
        /\ ( pc_mut # "idle" /\ events_resources' # events_resources )
             => ( pc_mut \in { "modify", "assign" } /\ pc_mut' # pc_mut )
      ]_vars

\* the temperature task has notified the setup thread, which waits for
\* shutdown, of a change and still owns the write lock
C20_Witness ==
    /\ pc_mut = "return"
    /\ holders = { "mutator" }
    /\ pc_main = "blocked_shutdown"
    /\ mainWoken
    /\ TemperatureSourcePresent
    /\ dirty = {}

\* the transportfile of a connection resource is the one set_transportfile
\* derives from the resource's active transport_params, which hold no
\* "auto": no address or port of the description is "auto"
DerivedFromResolved(resource) ==
    resource.transportfile # null
        => /\ ~ HasAuto(resource.active)
           /\ DOMAIN resource.transportfile.data.media = DOMAIN resource.active
           /\ \A i \in DOMAIN resource.active :
                 LET media == resource.transportfile.data.media[i]
                 IN  /\ media.source_filter = resource.active[i].source_ip
                     /\ media.connection = resource.active[i].destination_ip
                     /\ media.port = resource.active[i].destination_port
                     /\ auto \notin { media.source_filter, media.connection,
                                       media.port }

\* C21: the transportfile of the example sender's connection resource, as
\* built by the setup sequence and as an activation has left it in the
\* model, is derived from active transport_params to which resolve_auto
\* has been applied: they hold no "auto" and neither does the description.
C21_ResolveBeforeBuild ==
    /\ ( connection_resource # null /\ connection_resource.id = sender_id )
          => ( connection_resource.transportfile # null
               /\ DerivedFromResolved(connection_resource) )
    /\ find_resource(connection_resources, << sender_id, "sender" >>)
          => ( connection_resources[<< sender_id, "sender" >>].transportfile # null
               /\ DerivedFromResolved(connection_resources[<< sender_id, "sender" >>]) )

\* an activation of the example sender from staged transport_params whose
\* second leg was all "auto" has committed: the description has the
\* client's address for the first leg and the resolver's for the second
C21_Witness ==
    /\ pc_act = "notify"
    /\ act.id_type = << sender_id, "sender" >>
    /\ act.staged = << patched(rtp_sender_leg), rtp_sender_leg >>
    /\ connection_resources[act.id_type].transportfile.data.media[1].connection
          = "client"
    /\ connection_resources[act.id_type].transportfile.data.media[2].connection
          = "239.255.255.1"

\* C22: whenever the temperature task is at its modify_resource call the
\* temperature event source is in the events resources, whatever the
\* events port is; and the task is started only after the last insert of
\* the setup sequence.
C22_TargetPresent ==
    /\ pc_mut \in { "modify", "assign" } => TemperatureSourcePresent
    /\ pc_mut # "idle" => ip > Len(Program(events_port))

=============================================================================
